---- MODULE Spec2Model ----
(***************************************************************************)
(* LiveTranslate: the WebSocket transcription relay (/ws/transcribe) and   *)
(* the session store behind the REST endpoints.                            *)
(*                                                                         *)
(* Relay: one instance per client connection.  The relay keeps the four    *)
(* closure variables of the connection handler (assemblyWs, sessionConfig, *)
(* isAuthenticated, assemblyApiKey), the client-facing socket and every    *)
(* provider-facing socket it has created.  Each event handler is one       *)
(* action; the await on the translation call splits the provider message   *)
(* handler in two (UpstreamMessage, TranslateDone).                        *)
(*                                                                         *)
(* Sockets follow the ws library: readyState is CONNECTING, OPEN, CLOSING  *)
(* or CLOSED; close() moves an open socket to CLOSING; send() on a socket  *)
(* that is not OPEN delivers nothing; message events are still delivered   *)
(* while a socket is CLOSING after close(); an error event detaches the    *)
(* receiver (FAILED: readyState CLOSING, no further messages) and is       *)
(* followed by the close event.                                            *)
(*                                                                         *)
(* Every handler is an operator from the relay's state and the event to    *)
(* the relay's next state, so that a handler's effect can be stated for    *)
(* every input in every reachable state; an action applies one handler.    *)
(***************************************************************************)
EXTENDS Integers, Sequences, FiniteSets, TLC

VARIABLES
    envApiKey,      \* process.env.ASSEMBLYAI_API_KEY ("" when not configured)
    relay,          \* the connection handler's closure variables and sockets:
                    \*   isAuthenticated, sessionConfig, assemblyApiKey,
                    \*   assemblyWs (index into socks, 0 when null),
                    \*   socks (every provider socket created: readyState, sent),
                    \*   clientWs (readyState of the client-facing socket),
                    \*   toClient (messages delivered to the client, in order),
                    \*   pending (translation calls the message handler awaits)
    finals,         \* history: FinalTranscript results received, in order
    authReceived,   \* history: an auth message bearing a valid token was received
    errorSeen,      \* history: a transport error event has fired on either socket
    db,             \* the database: users, sessions and utterances tables
    res,            \* the response to the REST request handled last
    writes,         \* history: the number of requests that changed the store
    signups,        \* the signup requests suspended between their email check
                    \* and their insert
    view,           \* a transcript row on screen: the utterance's speaker label
                    \* and confidence, and the color and opacity it is drawn in
    client,         \* the recording screen's end of the connection:
                    \*   token (the stored credential), ws (readyState of its
                    \*   first socket), wsRef (the socket wsRef.current holds),
                    \*   sockets (how many it created), outbox (frames sent and
                    \*   not yet received by the relay), read (how many of
                    \*   relay.toClient it has received), capture (the audio
                    \*   processor and context), isRecording, isConnecting,
                    \*   translations (the rows shown), stopping (a suspended
                    \*   stopRecording and the translations it holds),
                    \*   submitted (the finalize requests sent), sent (audio
                    \*   frames sent)
    selector        \* the language pair of the record screen (sourceLanguage,
                    \* targetLanguage) and the language selector screen over
                    \* it: open, activeTab, selectedSource, selectedTarget

relayVars == <<envApiKey, relay, finals, authReceived, errorSeen>>
storeVars == <<db, res, writes, signups>>
clientVars == <<view, client, selector>>
vars == <<envApiKey, relay, finals, authReceived, errorSeen, db, res, writes,
         signups, view, client, selector>>

(***************************************************************************)
(* Bounds of the model.                                                    *)
(***************************************************************************)
MaxWork == 5     \* messages delivered to the client + provider sockets created
                 \* + messages sent to the provider + final results received

(***************************************************************************)
(* Text.  A string is a sequence of one-character strings, so that trim()  *)
(* and split() are computed rather than assumed.                           *)
(***************************************************************************)
UndefText == <<"undefined">>     \* an absent (undefined) text field
UndefNum == 0 - 1                \* an absent (undefined) numeric field

RECURSIVE TrimStart(_)
TrimStart(s) ==
    IF s # <<>> /\ Head(s) = " " THEN TrimStart(Tail(s)) ELSE s

RECURSIVE TrimEnd(_)
TrimEnd(s) ==
    IF s # <<>> /\ s[Len(s)] = " " THEN TrimEnd(SubSeq(s, 1, Len(s) - 1)) ELSE s

\* String.prototype.trim
Trim(s) == TrimEnd(TrimStart(s))

\* JavaScript truthiness of a text / a number, as used by `a || b`
FalsyText(s) == s = UndefText \/ s = <<>>
FalsyNum(n) == n = UndefNum \/ n = 0
OrText(a, b) == IF FalsyText(a) THEN b ELSE a
OrNum(a, b) == IF FalsyNum(a) THEN b ELSE a
\* the same for a short string kept whole (a language code, a speaker label);
\* "" stands for both the empty and the absent string
OrStr(a, b) == IF a = "" THEN b ELSE a

(***************************************************************************)
(* Frames from the client.  A frame is the Buffer handed to the message    *)
(* handler: its bytes, whether the client sent it as a binary frame, and   *)
(* whether the library delivered it as a string.  Control texts are JSON;  *)
(* the bytes after the opening brace are abbreviated to one code byte.     *)
(***************************************************************************)
OpenBrace == 123

AuthValidText == <<OpenBrace, 1>>    \* {"type":"auth","token":<valid>}
AuthForgedText == <<OpenBrace, 2>>   \* {"type":"auth","token":<forged>}
StartText == <<OpenBrace, 3>>        \* {"type":"start","sourceLanguage":"es","targetLanguage":"en"}
StartSameText == <<OpenBrace, 4>>    \* {"type":"start","targetLanguage":"es"}
StopText == <<OpenBrace, 5>>         \* {"type":"stop"}
OtherText == <<OpenBrace, 6>>        \* {"type":"ping"}

ControlTexts == {AuthValidText, AuthForgedText, StartText, StartSameText,
                 StopText, OtherText}

\* the audio payloads the client sends; the last begins with byte 123
AudioFrames == {<<0, 16>>, <<OpenBrace, 0, 1>>}

ClientFrames ==
    [isBinary : {FALSE}, asString : BOOLEAN, bytes : ControlTexts]
    \cup [isBinary : {TRUE}, asString : {FALSE}, bytes : AudioFrames]

SyntaxError == [type |-> "SyntaxError"]

\* JSON.parse(data.toString())
JSONParse(bytes) ==
    IF bytes = AuthValidText THEN [type |-> "auth", token |-> "valid"]
    ELSE IF bytes = AuthForgedText THEN [type |-> "auth", token |-> "forged"]
    ELSE IF bytes = StartText
        THEN [type |-> "start", sourceLanguage |-> "es", targetLanguage |-> "en"]
    ELSE IF bytes = StartSameText
        THEN [type |-> "start", sourceLanguage |-> "", targetLanguage |-> "es"]
    ELSE IF bytes = StopText THEN [type |-> "stop"]
    ELSE IF bytes = OtherText THEN [type |-> "ping"]
    ELSE SyntaxError

\* jwt.verify succeeded
verifyToken(token) == token = "valid"

\* typeof data === "string" || (data instanceof Buffer && data[0] === 123)
IsControl(data) ==
    data.asString \/ (Len(data.bytes) > 0 /\ data.bytes[1] = OpenBrace)

(***************************************************************************)
(* Base64, as Buffer.toString("base64"): sextets 0..63, and Pad for "=".   *)
(***************************************************************************)
Pad == 64

RECURSIVE Base64(_)
Base64(b) ==
    IF Len(b) = 0 THEN <<>>
    ELSE IF Len(b) = 1 THEN
        <<b[1] \div 4, (b[1] % 4) * 16, Pad, Pad>>
    ELSE IF Len(b) = 2 THEN
        <<b[1] \div 4, (b[1] % 4) * 16 + b[2] \div 16, (b[2] % 16) * 4, Pad>>
    ELSE
        <<b[1] \div 4, (b[1] % 4) * 16 + b[2] \div 16,
          (b[2] % 16) * 4 + b[3] \div 64, b[3] % 64>>
        \o Base64(SubSeq(b, 4, Len(b)))


(***************************************************************************)
(* Messages from the provider (JSON text on the wire).  Confidence is in   *)
(* tenths.                                                                 *)
(***************************************************************************)
RelayDefaultConfidence == 9

NoFields == [text |-> UndefText, confidence |-> UndefNum,
             audio_start |-> UndefNum, audio_end |-> UndefNum]

ProviderMsgs ==
    { [message_type |-> "FinalTranscript", text |-> <<"y", "o", " ">>,
       confidence |-> 8, audio_start |-> 120, audio_end |-> 300],
      [message_type |-> "FinalTranscript", text |-> <<" ">>,
       confidence |-> UndefNum, audio_start |-> 0, audio_end |-> UndefNum],
      [message_type |-> "FinalTranscript", text |-> <<>>,
       confidence |-> 0, audio_start |-> 300, audio_end |-> 300],
      [message_type |-> "PartialTranscript", text |-> <<"h">>,
       confidence |-> 5, audio_start |-> 0, audio_end |-> 60],
      [message_type |-> "SessionBegins"] @@ NoFields,
      [message_type |-> "SessionTerminated"] @@ NoFields,
      [message_type |-> "unparsable"] @@ NoFields }

\* what the translation request can come back with
Outcomes ==
    {[kind |-> "throw", response |-> UndefText],
     [kind |-> "not_ok", response |-> UndefText]}
    \cup [kind : {"ok"}, response : {UndefText, <<" ", "o", "k", " ">>, <<" ">>}]

\* translateWithLemur returns before the fetch
TranslatesLocally(text, sourceLanguage, targetLanguage) ==
    FalsyText(text) \/ Len(Trim(text)) = 0 \/ sourceLanguage = targetLanguage

translateWithLemur(text, sourceLanguage, targetLanguage, outcome) ==
    IF FalsyText(text) \/ Len(Trim(text)) = 0 THEN text
    ELSE IF sourceLanguage = targetLanguage THEN text
    ELSE IF outcome.kind = "throw" THEN text
    ELSE IF outcome.kind = "not_ok" THEN text
    ELSE OrText(IF outcome.response = UndefText THEN UndefText
                ELSE Trim(outcome.response), text)

(***************************************************************************)
(* Sockets.                                                                *)
(***************************************************************************)
NoConfig == [sourceLanguage |-> "", targetLanguage |-> ""]

\* clientWs.send(JSON.stringify(m)): delivered only on an open socket
ClientSend(r, m) ==
    IF r.clientWs = "OPEN" THEN [r EXCEPT !.toClient = Append(@, m)] ELSE r

\* if (assemblyWs && assemblyWs.readyState === WebSocket.OPEN)
\*   { assemblyWs.send({terminate_session: true}); assemblyWs.close(); }
CloseUpstreamIfOpen(r) ==
    IF r.assemblyWs # 0 /\ r.socks[r.assemblyWs].readyState = "OPEN"
    THEN [r EXCEPT !.socks[r.assemblyWs] =
             [readyState |-> "CLOSING",
              sent |-> Append(@.sent, [terminate_session |-> TRUE])]]
    ELSE r

ErrorMsg(text) == [type |-> "error", message |-> text]

\* a relay that sends the translation as it came back, whitespace and all
TranslationMsg_Untrimmed(id, result, translatedText) ==
    [type |-> "translation",
     id |-> id,
     speaker |-> "A",
     originalText |-> result.text,
     translatedText |-> translatedText,
     confidence |-> OrNum(result.confidence, RelayDefaultConfidence),
     startTime |-> OrNum(result.audio_start, 0),
     endTime |-> OrNum(result.audio_end, 0)]

\* the translation message; id is history (the number of the final result
\* it answers) and is not on the wire
TranslationMsg(id, result, translatedText) ==
    [type |-> "translation",
     id |-> id,
     speaker |-> "A",
     originalText |-> result.text,
     translatedText |-> Trim(translatedText),
     confidence |-> OrNum(result.confidence, RelayDefaultConfidence),
     startTime |-> OrNum(result.audio_start, 0),
     endTime |-> OrNum(result.audio_end, 0)]

(***************************************************************************)
(* clientWs.on("message")                                                  *)
(***************************************************************************)
\* message.type === "auth"
HandleAuth(r, message) ==
    IF ~verifyToken(message.token)
    THEN LET r1 == ClientSend(r, ErrorMsg("Authentication failed")) IN
         [r1 EXCEPT !.clientWs = IF @ = "OPEN" THEN "CLOSING" ELSE @]
    ELSE ClientSend([r EXCEPT !.isAuthenticated = TRUE], [type |-> "auth_success"])

\* a relay that starts a session for whoever asks
HandleStart_NoAuthCheck(r, env, message) ==
    LET r1 == [r EXCEPT
                 !.sessionConfig =
                     [sourceLanguage |-> OrStr(message.sourceLanguage, "es"),
                      targetLanguage |-> OrStr(message.targetLanguage, "en")],
                 !.assemblyApiKey = env] IN
    IF env = ""
    THEN ClientSend(r1, ErrorMsg("AssemblyAI API key not configured"))
    ELSE [r1 EXCEPT
            !.socks = Append(@, [readyState |-> "CONNECTING", sent |-> <<>>]),
            !.assemblyWs = Len(r.socks) + 1]

\* message.type === "start"
HandleStart(r, env, message) ==
    IF ~r.isAuthenticated
    THEN ClientSend(r, ErrorMsg("Not authenticated"))
    ELSE LET r1 == [r EXCEPT
                      !.sessionConfig =
                          [sourceLanguage |-> OrStr(message.sourceLanguage, "es"),
                           targetLanguage |-> OrStr(message.targetLanguage, "en")],
                      !.assemblyApiKey = env] IN
         IF env = ""
         THEN ClientSend(r1, ErrorMsg("AssemblyAI API key not configured"))
         ELSE [r1 EXCEPT
                 !.socks = Append(@, [readyState |-> "CONNECTING", sent |-> <<>>]),
                 !.assemblyWs = Len(r.socks) + 1]

\* message.type === "stop"
HandleStop(r) ==
    ClientSend(CloseUpstreamIfOpen(r), [type |-> "stopped"])

\* the else branch: binary audio data
HandleAudio(r, data) ==
    IF r.assemblyWs # 0 /\ r.socks[r.assemblyWs].readyState = "OPEN"
    THEN [r EXCEPT !.socks[r.assemblyWs].sent =
             Append(@, [audio_data |-> Base64(data.bytes)])]
    ELSE r

OnClientMessage(r, env, data) ==
    IF IsControl(data)
    THEN LET message == JSONParse(data.bytes) IN
         IF message.type = "auth" THEN HandleAuth(r, message)
         ELSE IF message.type = "start" THEN HandleStart(r, env, message)
         ELSE IF message.type = "stop" THEN HandleStop(r)
         ELSE r      \* another type; or a SyntaxError, caught and logged
    ELSE HandleAudio(r, data)

\* clientWs.on("close")
OnClientClose(r) == CloseUpstreamIfOpen(r)

\* clientWs.on("error"): logs
OnClientError(r) == r

(***************************************************************************)
(* The handlers the start branch registers on the provider socket.         *)
(***************************************************************************)
\* assemblyWs.on("open")
OnUpstreamOpen(r) == ClientSend(r, [type |-> "ready"])

\* result.message_type === "FinalTranscript" && result.text
IsFinalWithText(result) ==
    result.message_type = "FinalTranscript" /\ ~FalsyText(result.text)

\* sessionConfig && sessionConfig.sourceLanguage !== sessionConfig.targetLanguage
\*   && assemblyApiKey
CallsTranslate(r) ==
    /\ r.sessionConfig # NoConfig
    /\ r.sessionConfig.sourceLanguage # r.sessionConfig.targetLanguage
    /\ r.assemblyApiKey # ""

\* the handler reaches the fetch inside translateWithLemur and is suspended
Suspends(r, result) ==
    /\ IsFinalWithText(result)
    /\ CallsTranslate(r)
    /\ ~TranslatesLocally(result.text, r.sessionConfig.sourceLanguage,
                          r.sessionConfig.targetLanguage)

\* a relay that republishes every result that has text, final or not
OnUpstreamMessage_AnyText(r, id, result) ==
    IF FalsyText(result.text) THEN r
    ELSE IF CallsTranslate(r)
            /\ ~TranslatesLocally(result.text, r.sessionConfig.sourceLanguage,
                                  r.sessionConfig.targetLanguage)
    THEN [r EXCEPT !.pending = @ \cup
             {[id |-> id, result |-> result,
               sourceLanguage |-> r.sessionConfig.sourceLanguage,
               targetLanguage |-> r.sessionConfig.targetLanguage]}]
    ELSE ClientSend(r, TranslationMsg(id, result, result.text))

\* assemblyWs.on("message"), up to the fetch; id numbers the final results
OnUpstreamMessage(r, id, result) ==
    IF ~IsFinalWithText(result) THEN r
    ELSE IF Suspends(r, result)
    THEN [r EXCEPT !.pending = @ \cup
             {[id |-> id, result |-> result,
               sourceLanguage |-> r.sessionConfig.sourceLanguage,
               targetLanguage |-> r.sessionConfig.targetLanguage]}]
    ELSE ClientSend(r, TranslationMsg(id, result, result.text))

\* assemblyWs.on("message"), from the fetch on
OnTranslateDone(r, task, outcome) ==
    ClientSend([r EXCEPT !.pending = @ \ {task}],
               TranslationMsg(task.id, task.result,
                   translateWithLemur(task.result.text, task.sourceLanguage,
                                      task.targetLanguage, outcome)))

\* assemblyWs.on("error")
OnUpstreamError(r) == ClientSend(r, ErrorMsg("Transcription service error"))

\* assemblyWs.on("close"): logs
OnUpstreamClose(r) == r

(***************************************************************************)
(* The session store and the REST endpoints that write it.  Confidence is  *)
(* in tenths; an average is the fraction num/den in lowest terms.          *)
(***************************************************************************)
MaxWrites == 2       \* requests that change the store
MaxAccounts == 2     \* rows of the users table + signups on their way to it

DefaultConfidence == 9    \* u.confidence || 0.9
Slot == 5000              \* u.startTime || i * 5000

Users == {"u1", "u2"}

\* the Authorization header, split after the scheme; <<>> when absent
AuthHeaders == {<<>>, <<"Bearer ", "u1">>, <<"Bearer ", "u2">>,
                <<"Bearer ", "forged">>}

\* jwt.verify(token, JWT_SECRET).userId, "" when verify throws
jwtVerify(token) == IF token \in Users THEN token ELSE ""

Response(status, error, sessionId) ==
    [status |-> status, error |-> error, sessionId |-> sessionId]

NoResponse == Response(0, "", 0)

authMiddleware(authHeader) ==
    IF ~(Len(authHeader) > 0 /\ authHeader[1] = "Bearer ")
    THEN [userId |-> "", res |-> Response(401, "Unauthorized", 0)]
    ELSE IF jwtVerify(authHeader[2]) = ""
    THEN [userId |-> "", res |-> Response(401, "Invalid token", 0)]
    ELSE [userId |-> jwtVerify(authHeader[2]), res |-> NoResponse]

\* req.params.id: decimal digits 0..9, and 10 for any other character
NaN == 0 - 2

RECURSIVE LeadingDigits(_, _)
LeadingDigits(s, n) ==
    IF s = <<>> \/ Head(s) > 9 THEN n
    ELSE LeadingDigits(Tail(s), 10 * n + Head(s))

parseInt(s) ==
    IF s = <<>> \/ Head(s) > 9 THEN NaN ELSE LeadingDigits(s, 0)

\* the sessions there can be, one that is missing, "1x" and "x"
SessionParams == {<<i>> : i \in 1..MaxWrites} \cup {<<1, 10>>, <<10>>}

\* avg_confidence: a fraction in lowest terms; null until finalized
RECURSIVE GCD(_, _)
GCD(a, b) == IF b = 0 THEN a ELSE GCD(b, a % b)

Fraction(num, den) ==
    LET g == GCD(num, den) IN [num |-> num \div g, den |-> den \div g]

NullAvg == [num |-> 0, den |-> 0]

\* storage.getSessionById(id): the row's index, 0 when there is none
getSessionById(d, id) ==
    IF id \in 1..Len(d.sessions) THEN id ELSE 0

\* storage.createSession(data): id is the serial primary key
createSession(d, data) ==
    [d EXCEPT !.sessions = Append(@,
        [id |-> Len(d.sessions) + 1,
         userId |-> data.userId,
         sourceLanguage |-> data.sourceLanguage,
         targetLanguage |-> data.targetLanguage,
         duration |-> data.duration,
         speakerCount |-> data.speakerCount,
         avgConfidence |-> NullAvg,
         totalWordCount |-> 0])]

\* storage.updateSession(id, data)
updateSession(d, id, data) ==
    [d EXCEPT !.sessions[id] =
        [@ EXCEPT !.duration = data.duration,
                  !.speakerCount = data.speakerCount,
                  !.avgConfidence = data.avgConfidence,
                  !.totalWordCount = data.totalWordCount]]

\* storage.createUtterances(data): one insert of all the rows
createUtterances(d, data) ==
    [d EXCEPT !.utterances =
        @ \o [i \in 1..Len(data) |->
                [id |-> Len(d.utterances) + i] @@ data[i]]]

\* the insert is rejected: a NOT NULL column would be null
ViolatesNotNull(data) ==
    \E i \in 1..Len(data) :
        \/ data[i].originalText = UndefText
        \/ data[i].translatedText = UndefText

\* utterances.map((u, i) => ...) of the finalize handler; i counts from 0
utteranceData(sessionId, utterances) ==
    [k \in 1..Len(utterances) |->
        LET u == utterances[k]
            i == k - 1
        IN [sessionId |-> sessionId,
            speakerLabel |-> OrStr(u.speaker, "A"),
            originalText |-> OrText(u.originalText, u.text),
            translatedText |-> OrText(u.translatedText, u.text),
            confidence |-> OrNum(u.confidence, DefaultConfidence),
            startTime |-> OrNum(u.startTime, i * Slot),
            endTime |-> OrNum(u.endTime, (i + 1) * Slot)]]

\* s.split(" ").length
RECURSIVE SplitLength(_)
SplitLength(s) ==
    IF s = <<>> THEN 1
    ELSE (IF Head(s) = " " THEN 1 ELSE 0) + SplitLength(Tail(s))

RECURSIVE SumConfidence(_)
SumConfidence(utterances) ==
    IF utterances = <<>> THEN 0
    ELSE OrNum(Head(utterances).confidence, DefaultConfidence)
         + SumConfidence(Tail(utterances))

RECURSIVE SumWords(_)
SumWords(utterances) ==
    IF utterances = <<>> THEN 0
    ELSE SplitLength(OrText(Head(utterances).translatedText,
                            OrText(Head(utterances).text, <<>>)))
         + SumWords(Tail(utterances))

\* req.body.utterances when the body has none
NoList == <<[absent |-> TRUE]>>

\* the quality metrics of the finalize handler
QualityMetrics(duration, utterances) ==
    [duration |-> OrNum(duration, 0),
     speakerCount |->
        IF utterances # NoList
        THEN Cardinality({utterances[k].speaker : k \in 1..Len(utterances)})
        ELSE 1,
     avgConfidence |->
        IF utterances # NoList /\ Len(utterances) > 0
        THEN Fraction(SumConfidence(utterances), Len(utterances) * 10)
        ELSE Fraction(DefaultConfidence, 10),
     totalWordCount |->
        IF utterances # NoList THEN SumWords(utterances) ELSE 0]

\* a handler that answers 200 when the insert throws
PostSession_Swallows(d, authHeader, body, fail) ==
    LET auth == authMiddleware(authHeader) IN
    IF auth.userId = "" THEN [db |-> d, res |-> auth.res]
    ELSE IF fail = "createSession"
    THEN [db |-> d, res |-> Response(200, "", 0)]
    ELSE [db |-> createSession(d,
                    [userId |-> auth.userId,
                     sourceLanguage |-> OrStr(body.sourceLanguage, "es"),
                     targetLanguage |-> OrStr(body.targetLanguage, "en"),
                     duration |-> 0,
                     speakerCount |-> 1]),
          res |-> Response(200, "", Len(d.sessions) + 1)]

\* POST /api/sessions; fail names the storage call that throws
PostSession(d, authHeader, body, fail) ==
    LET auth == authMiddleware(authHeader) IN
    IF auth.userId = "" THEN [db |-> d, res |-> auth.res]
    ELSE IF fail = "createSession"
    THEN [db |-> d, res |-> Response(500, "Failed to create session", 0)]
    ELSE [db |-> createSession(d,
                    [userId |-> auth.userId,
                     sourceLanguage |-> OrStr(body.sourceLanguage, "es"),
                     targetLanguage |-> OrStr(body.targetLanguage, "en"),
                     duration |-> 0,
                     speakerCount |-> 1]),
          res |-> Response(200, "", Len(d.sessions) + 1)]

\* POST /api/sessions/:id/finalize; fail names the storage call that throws
PostFinalize(d, authHeader, param, body, fail) ==
    LET auth == authMiddleware(authHeader)
        sessionId == parseInt(param)
        failed == Response(500, "Failed to finalize session", 0)
    IN
    IF auth.userId = "" THEN [db |-> d, res |-> auth.res]
    ELSE IF fail = "getSessionById" \/ sessionId = NaN
    THEN [db |-> d, res |-> failed]
    ELSE IF \/ getSessionById(d, sessionId) = 0
            \/ d.sessions[sessionId].userId # auth.userId
    THEN [db |-> d, res |-> Response(404, "Session not found", 0)]
    ELSE LET saves == body.utterances # NoList /\ Len(body.utterances) > 0
             data == utteranceData(sessionId, body.utterances)
             d1 == IF saves THEN createUtterances(d, data) ELSE d
         IN
         IF saves /\ (fail = "createUtterances" \/ ViolatesNotNull(data))
         THEN [db |-> d, res |-> failed]
         ELSE IF fail = "updateSession"
         THEN [db |-> d1, res |-> failed]
         ELSE [db |-> updateSession(d1, sessionId,
                          QualityMetrics(body.duration, body.utterances)),
               res |-> Response(200, "", sessionId)]

(***************************************************************************)
(* The requests of the model.                                              *)
(***************************************************************************)
SessionBodies ==
    {[sourceLanguage |-> "", targetLanguage |-> ""],
     [sourceLanguage |-> "fr", targetLanguage |-> "de"]}

Utterance(speaker, original, translated, text, confidence, from, to) ==
    [speaker |-> speaker, originalText |-> original,
     translatedText |-> translated, text |-> text,
     confidence |-> confidence, startTime |-> from, endTime |-> to]

Full == Utterance("B", <<"s">>, <<"a", " ", "b">>, UndefText, 8, 1200, 2500)
\* every field given, the numbers 0
Zeroes == Utterance("A", <<"s">>, <<"y">>, UndefText, 0, 0, 0)
\* only a text given
Bare == Utterance("", UndefText, UndefText, <<"y">>, UndefNum, UndefNum, UndefNum)
\* no text given at all
Textless == Utterance("A", UndefText, UndefText, UndefText, 10, 0, 900)

\* req.body of a finalize request; the last two carry no duration
FinalizeBodies ==
    [duration : {30},
     utterances : {<<Full>>, <<Zeroes>>, <<Bare>>, <<Textless>>,
                   <<Full, Zeroes>>, <<Bare, Full>>}]
    \cup [duration : {UndefNum}, utterances : {<<>>, NoList}]

Request(authHeader, param, body, fail) ==
    [authHeader |-> authHeader, param |-> param, body |-> body, fail |-> fail]

SampleBody == [duration |-> 30, utterances |-> <<Full>>]

\* every body from either user for the first session while storage works;
\* one body for every other id, without a valid token, and under each
\* storage failure
FinalizeRequests ==
    {Request(<<"Bearer ", u>>, <<1>>, body, "none") :
        u \in Users, body \in FinalizeBodies}
    \cup {Request(h, <<1>>, SampleBody, "none") : h \in AuthHeaders}
    \cup {Request(<<"Bearer ", u>>, param, SampleBody, "none") :
            u \in Users, param \in SessionParams}
    \cup {Request(<<"Bearer ", u>>, <<1>>, SampleBody, fail) :
            u \in Users,
            fail \in {"getSessionById", "createUtterances", "updateSession"}}

SessionRequests ==
    {Request(h, <<>>, body, fail) :
        h \in AuthHeaders, body \in SessionBodies, fail \in {"none", "createSession"}}

\* the requests that have changed the store, this one included if it does
Written(d) == IF d # db THEN writes + 1 ELSE writes

CreateSession(req) ==
    /\ LET out == PostSession(db, req.authHeader, req.body, req.fail) IN
       /\ Written(out.db) <= MaxWrites
       /\ db' = out.db
       /\ res' = out.res
       /\ writes' = Written(out.db)
    /\ UNCHANGED <<relayVars, signups, clientVars>>

FinalizeSession(req) ==
    /\ LET out == PostFinalize(db, req.authHeader, req.param, req.body, req.fail) IN
       /\ Written(out.db) <= MaxWrites
       /\ db' = out.db
       /\ res' = out.res
       /\ writes' = Written(out.db)
    /\ UNCHANGED <<relayVars, signups, clientVars>>

(***************************************************************************)
(* The endpoints that read the store.  Rows come back ordered by a column  *)
(* (sessions by createdAt, utterances by startTime); the order of rows     *)
(* that tie is the database's, so a response holds its rows as a set, and  *)
(* the row that comes first is an input of the handler.                    *)
(***************************************************************************)
\* a store that returns every session to everyone
getSessionsByUserId_All(d, userId) == 1..Len(d.sessions)

\* storage.getSessionsByUserId(userId): the ids of the user's sessions
getSessionsByUserId(d, userId) ==
    {i \in 1..Len(d.sessions) : d.sessions[i].userId = userId}

\* storage.getUtterancesBySessionId(sessionId): the indexes of its rows
getUtterancesBySessionId(d, sessionId) ==
    {k \in 1..Len(d.utterances) : d.utterances[k].sessionId = sessionId}

\* the rows that can come first when a session's rows are ordered by startTime
Earliest(d, sessionId) ==
    {k \in getUtterancesBySessionId(d, sessionId) :
        \A j \in getUtterancesBySessionId(d, sessionId) :
            d.utterances[k].startTime <= d.utterances[j].startTime}

\* for every session the row that comes first, 0 when it has no rows
FirstRows(d) ==
    {first \in [1..Len(d.sessions) -> 0..Len(d.utterances)] :
        \A i \in 1..Len(d.sessions) :
            IF Earliest(d, i) = {} THEN first[i] = 0 ELSE first[i] \in Earliest(d, i)}

\* utterances[0]?.translatedText?.slice(0, 100) || ""
Preview(d, k) ==
    IF k = 0 THEN <<>>
    ELSE LET t == d.utterances[k].translatedText IN
         SubSeq(t, 1, IF Len(t) < 100 THEN Len(t) ELSE 100)

\* res.json(...) of a read: the sessions returned and, for GET :id, the
\* utterances returned
Returned(sessionId, sessions, utterances) ==
    [status |-> 200, error |-> "", sessionId |-> sessionId,
     sessions |-> sessions, utterances |-> utterances]

\* GET /api/sessions; fail names the storage call that throws
GetSessions(d, authHeader, first, fail) ==
    LET auth == authMiddleware(authHeader)
        failed == Response(500, "Failed to fetch sessions", 0)
        sessions == getSessionsByUserId(d, auth.userId)
    IN
    IF auth.userId = "" THEN [db |-> d, res |-> auth.res]
    ELSE IF fail = "getSessionsByUserId" THEN [db |-> d, res |-> failed]
    ELSE IF fail = "getUtterancesBySessionId" /\ sessions # {}
    THEN [db |-> d, res |-> failed]
    ELSE [db |-> d,
          res |-> Returned(0,
                    {[session |-> d.sessions[i], preview |-> Preview(d, first[i])] :
                        i \in sessions},
                    {})]

\* GET /api/sessions/:id; fail names the storage call that throws
GetSession(d, authHeader, param, fail) ==
    LET auth == authMiddleware(authHeader)
        sessionId == parseInt(param)
        failed == Response(500, "Failed to fetch session", 0)
    IN
    IF auth.userId = "" THEN [db |-> d, res |-> auth.res]
    ELSE IF fail = "getSessionById" \/ sessionId = NaN
    THEN [db |-> d, res |-> failed]
    ELSE IF \/ getSessionById(d, sessionId) = 0
            \/ d.sessions[sessionId].userId # auth.userId
    THEN [db |-> d, res |-> Response(404, "Session not found", 0)]
    ELSE IF fail = "getUtterancesBySessionId" THEN [db |-> d, res |-> failed]
    ELSE [db |-> d,
          res |-> Returned(sessionId,
                    {[session |-> d.sessions[sessionId], preview |-> <<>>]},
                    {d.utterances[k] : k \in getUtterancesBySessionId(d, sessionId)})]

\* reads by either user of every id, and one read without a valid token
\* and under each storage failure
ReadRequests ==
    {Request(<<"Bearer ", u>>, param, <<>>, "none") :
        u \in Users, param \in SessionParams}
    \cup {Request(h, <<1>>, <<>>, "none") : h \in AuthHeaders}
    \cup {Request(<<"Bearer ", "u1">>, <<1>>, <<>>, fail) :
            fail \in {"getSessionById", "getUtterancesBySessionId"}}

\* a listing under every header, and by one user under each storage failure
ListRequests ==
    {Request(h, <<>>, <<>>, "none") : h \in AuthHeaders}
    \cup {Request(<<"Bearer ", "u1">>, <<>>, <<>>, fail) :
            fail \in {"getSessionsByUserId", "getUtterancesBySessionId"}}

ListSessions(req) ==
    /\ \E first \in FirstRows(db) :
          res' = GetSessions(db, req.authHeader, first, req.fail).res
    /\ UNCHANGED <<db, writes>>
    /\ UNCHANGED <<relayVars, signups, clientVars>>

ReadSession(req) ==
    /\ res' = GetSession(db, req.authHeader, req.param, req.fail).res
    /\ UNCHANGED <<db, writes>>
    /\ UNCHANGED <<relayVars, signups, clientVars>>

(***************************************************************************)
(* Accounts: POST /api/auth/signup and POST /api/auth/login.  Signup       *)
(* awaits the email lookup, the password hash and the insert in turn, so   *)
(* requests interleave between the lookup and the insert.  The ids of the  *)
(* users table are generated (gen_random_uuid); here they number the rows. *)
(***************************************************************************)
\* bcrypt.hash(password, 10) and bcrypt.compare(password, hash)
bcryptHash(password) == [bcrypt |-> password]
bcryptCompare(password, hash) == hash.bcrypt = password

\* storage.getUserByEmail(email): the row's index, 0 when there is none
getUserByEmail(d, email) ==
    IF \E k \in 1..Len(d.users) : d.users[k].email = email
    THEN CHOOSE k \in 1..Len(d.users) :
            /\ d.users[k].email = email
            /\ \A j \in 1..(k - 1) : d.users[j].email # email
    ELSE 0

\* storage.createUser(data)
createUser(d, data) ==
    [d EXCEPT !.users = Append(@, [id |-> Len(d.users) + 1] @@ data)]

\* a users table without the unique constraint on email
ViolatesUnique_Dropped(d, data) == FALSE

\* the insert is rejected: email is unique
ViolatesUnique(d, data) ==
    \E k \in 1..Len(d.users) : d.users[k].email = data.email

\* res.json({ token, user }): the token carries the user's id
Issued(user) ==
    [status |-> 200, error |-> "", sessionId |-> 0,
     token |-> user.id, user |-> [id |-> user.id, email |-> user.email,
                                  name |-> user.name]]

signupFailed == Response(500, "Failed to create account", 0)

\* signup up to the insert: the response, or none and the row to insert
SignupCheck(d, body, fail) ==
    IF body.name = "" \/ body.email = "" \/ body.password = ""
    THEN [res |-> Response(400, "All fields are required", 0), suspended |-> <<>>]
    ELSE IF fail = "getUserByEmail"
    THEN [res |-> signupFailed, suspended |-> <<>>]
    ELSE IF getUserByEmail(d, body.email) # 0
    THEN [res |-> Response(400, "Email already registered", 0), suspended |-> <<>>]
    ELSE [res |-> NoResponse,
          suspended |-> <<[name |-> body.name, email |-> body.email,
                           password |-> bcryptHash(body.password)]>>]

\* signup from the insert on
SignupInsert(d, data, fail) ==
    IF fail = "createUser" \/ ViolatesUnique(d, data)
    THEN [db |-> d, res |-> signupFailed]
    ELSE [db |-> createUser(d, data),
          res |-> Issued([id |-> Len(d.users) + 1] @@ data)]

\* POST /api/auth/login
PostLogin(d, body, fail) ==
    LET k == getUserByEmail(d, body.email) IN
    IF body.email = "" \/ body.password = ""
    THEN Response(400, "Email and password are required", 0)
    ELSE IF fail = "getUserByEmail" THEN Response(500, "Login failed", 0)
    ELSE IF k = 0 THEN Response(401, "Invalid email or password", 0)
    ELSE IF ~bcryptCompare(body.password, d.users[k].password)
    THEN Response(401, "Invalid email or password", 0)
    ELSE Issued(d.users[k])

Credentials(name, email, password) ==
    [name |-> name, email |-> email, password |-> password]

SignupBodies ==
    {Credentials("n", "a@x", "pw"), Credentials("m", "a@x", "pw2"),
     Credentials("n", "b@x", "pw"), Credentials("", "b@x", "pw")}

LoginBodies ==
    {Credentials("", "a@x", "pw"), Credentials("", "a@x", "bad"),
     Credentials("", "b@x", "pw"), Credentials("", "", "pw")}

\* the rows of the users table and the signups on their way to it
Accounts(d, s) == Len(d.users) + Len(s)

RemoveAt(s, k) == SubSeq(s, 1, k - 1) \o SubSeq(s, k + 1, Len(s))

SignupBegin(body, fail) ==
    /\ LET out == SignupCheck(db, body, fail) IN
       /\ Accounts(db, signups \o out.suspended) <= MaxAccounts
       /\ signups' = signups \o out.suspended
       /\ res' = IF out.suspended = <<>> THEN out.res ELSE res
    /\ UNCHANGED <<db, writes>>
    /\ UNCHANGED <<relayVars, clientVars>>

SignupEnd(k, fail) ==
    /\ k \in 1..Len(signups)
    /\ LET out == SignupInsert(db, signups[k], fail) IN
       /\ db' = out.db
       /\ res' = out.res
    /\ signups' = RemoveAt(signups, k)
    /\ UNCHANGED writes
    /\ UNCHANGED <<relayVars, clientVars>>

Login(body, fail) ==
    /\ res' = PostLogin(db, body, fail)
    /\ UNCHANGED <<db, writes, signups>>
    /\ UNCHANGED <<relayVars, clientVars>>

(***************************************************************************)
(* Actions: one event, the library's change of readyState, the handler.    *)
(***************************************************************************)
RECURSIVE SentTotal(_)
SentTotal(ss) ==
    IF ss = <<>> THEN 0 ELSE Len(Head(ss).sent) + SentTotal(Tail(ss))

Work(r, f) == Len(r.toClient) + Len(r.socks) + SentTotal(r.socks) + Len(f)

WithinBounds(r, f) == Work(r, f) <= MaxWork

SetSock(r, i, state) == [r EXCEPT !.socks[i].readyState = state]

IsValidAuth(data) == ~data.isBinary /\ data.bytes = AuthValidText

ClientMessage(data) ==
    /\ relay.clientWs \in {"OPEN", "CLOSING"}
    /\ relay' = OnClientMessage(relay, envApiKey, data)
    /\ WithinBounds(relay', finals)
    /\ authReceived' = (authReceived \/ IsValidAuth(data))
    /\ UNCHANGED <<envApiKey, finals, errorSeen, storeVars, clientVars>>

ClientClose ==
    /\ relay.clientWs \in {"OPEN", "CLOSING", "FAILED"}
    /\ relay' = OnClientClose([relay EXCEPT !.clientWs = "CLOSED"])
    /\ WithinBounds(relay', finals)
    /\ UNCHANGED <<envApiKey, finals, authReceived, errorSeen, storeVars, clientVars>>

ClientError ==
    /\ relay.clientWs \in {"OPEN", "CLOSING"}
    /\ relay' = OnClientError([relay EXCEPT !.clientWs = "FAILED"])
    /\ errorSeen' = TRUE
    /\ UNCHANGED <<envApiKey, finals, authReceived, storeVars, clientVars>>

UpstreamOpen(i) ==
    /\ relay.socks[i].readyState = "CONNECTING"
    /\ relay' = OnUpstreamOpen(SetSock(relay, i, "OPEN"))
    /\ WithinBounds(relay', finals)
    /\ UNCHANGED <<envApiKey, finals, authReceived, errorSeen, storeVars, clientVars>>

UpstreamMessage(i, result) ==
    /\ relay.socks[i].readyState \in {"OPEN", "CLOSING"}
    /\ relay' = OnUpstreamMessage(relay, Len(finals) + 1, result)
    /\ finals' = IF result.message_type = "FinalTranscript"
                 THEN Append(finals, result) ELSE finals
    /\ WithinBounds(relay', finals')
    /\ UNCHANGED <<envApiKey, authReceived, errorSeen, storeVars, clientVars>>

TranslateDone(task, outcome) ==
    /\ task \in relay.pending
    /\ relay' = OnTranslateDone(relay, task, outcome)
    /\ WithinBounds(relay', finals)
    /\ UNCHANGED <<envApiKey, finals, authReceived, errorSeen, storeVars, clientVars>>

UpstreamError(i) ==
    /\ relay.socks[i].readyState \in {"CONNECTING", "OPEN", "CLOSING"}
    /\ relay' = OnUpstreamError(SetSock(relay, i, "FAILED"))
    /\ WithinBounds(relay', finals)
    /\ errorSeen' = TRUE
    /\ UNCHANGED <<envApiKey, finals, authReceived, storeVars, clientVars>>

UpstreamClose(i) ==
    /\ relay.socks[i].readyState \in {"OPEN", "CLOSING", "FAILED"}
    /\ relay' = OnUpstreamClose(SetSock(relay, i, "CLOSED"))
    /\ UNCHANGED <<envApiKey, finals, authReceived, errorSeen, storeVars, clientVars>>

(***************************************************************************)
(* The transcript rows on screen (RecordScreen.tsx and, with the same two  *)
(* functions, SessionDetailScreen.tsx).  A speaker label is the sequence   *)
(* of its UTF-16 code units; confidence and opacity are in hundredths.     *)
(***************************************************************************)
MaxCharCode == 127      \* the code units a label's first character is drawn from

SpeakerColors == <<"#2563EB", "#DC2626", "#059669", "#7C3AED", "#EA580C">>
CharCodeA == 65
Undefined == "undefined"

\* String.prototype.charCodeAt(0): NaN for the empty string
charCodeAt0(s) == IF s = <<>> THEN NaN ELSE s[1]

\* JavaScript's %: the remainder takes the sign of the dividend
Remainder(a, b) == IF a >= 0 THEN a % b ELSE 0 - ((0 - a) % b)

\* array[k]: undefined for a k that is not an index of the array
At(array, k) == IF k \in 0..(Len(array) - 1) THEN array[k + 1] ELSE Undefined

getSpeakerColor(speaker) ==
    LET code == charCodeAt0(speaker) IN
    IF code = NaN THEN Undefined
    ELSE LET index == code - CharCodeA IN
         At(SpeakerColors, Remainder(index, Len(SpeakerColors)))

getConfidenceOpacity(confidence) ==
    IF FalsyNum(confidence) THEN 100
    ELSE IF confidence >= 90 THEN 100
    ELSE IF confidence >= 70 THEN 80
    ELSE 50

\* the labels and confidences of the rows: every first character up to
\* MaxCharCode, the two-character label "S1", the empty label; every
\* confidence from 0 to 1 in hundredths, and an absent one
Labels == {<<c>> : c \in 0..MaxCharCode} \cup {<<83, 49>>, <<>>}
Confidences == 0..100 \cup {UndefNum}

NoView == [speaker |-> <<>>, confidence |-> UndefNum, color |-> "", opacity |-> 0, drawn |-> FALSE]
Rows == {[NoView EXCEPT !.speaker = l, !.confidence = c] : l \in Labels, c \in Confidences}

\* the row's badge, label and text are drawn
Render ==
    /\ ~view.drawn
    /\ view' = [view EXCEPT !.color = getSpeakerColor(view.speaker),
                            !.opacity = getConfidenceOpacity(view.confidence),
                            !.drawn = TRUE]
    /\ UNCHANGED <<relayVars, storeVars, client, selector>>

(***************************************************************************)
(* The recording screen (RecordScreen.tsx): its socket to the relay, its   *)
(* audio capture and its transcript.  Its handlers are operators on the    *)
(* client's state.  The model follows the first socket the screen creates  *)
(* to its relay; a socket created by a later press of the record button    *)
(* is recorded in wsRef and stays connecting.                              *)
(***************************************************************************)
MaxFrames == 2          \* audio frames the client sends
MaxSockets == 2         \* sockets the screen creates

ClientSlot == 5000

\* no stopRecording is suspended
NotStopping == [active |-> FALSE, translations |-> <<>>]

NewClient(token) ==
    [token |-> token, ws |-> "CONNECTING", wsRef |-> "first", sockets |-> 1,
     outbox |-> <<>>, read |-> 0, capture |-> "off",
     isRecording |-> FALSE, isConnecting |-> TRUE, sent |-> 0,
     translations |-> <<>>, stopping |-> NotStopping, submitted |-> <<>>]

TextFrame(bytes) == [isBinary |-> FALSE, bytes |-> bytes]
AudioFrame(bytes) == [isBinary |-> TRUE, bytes |-> bytes]

\* ws.send: a frame leaves only through an open socket
WsSend(c, frame) ==
    IF c.ws = "OPEN" THEN [c EXCEPT !.outbox = Append(@, frame)] ELSE c

\* ws.onopen: authenticate
WsOnOpen(c) ==
    WsSend(c, TextFrame(IF c.token = "valid" THEN AuthValidText ELSE AuthForgedText))

\* the row kept for a translation message
TranslationChunk(message) ==
    [speaker |-> OrStr(message.speaker, "A"),
     text |-> message.translatedText,
     originalText |-> message.originalText,
     confidence |-> message.confidence,
     startTime |-> message.startTime,
     endTime |-> message.endTime]

\* a client that starts capturing audio as soon as it is authenticated
WsOnMessage_EagerCapture(c, message) ==
    IF message.type = "auth_success"
    THEN [WsSend(c, TextFrame(StartText)) EXCEPT !.isRecording = TRUE,
                                                  !.capture = "requested"]
    ELSE c

\* ws.onmessage: start on auth_success, capture audio on ready, keep and
\* show a translation, show an error
WsOnMessage(c, message) ==
    IF message.type = "auth_success" THEN WsSend(c, TextFrame(StartText))
    ELSE IF message.type = "ready"
    THEN [c EXCEPT !.isRecording = TRUE,
                   !.isConnecting = FALSE,
                   !.capture = IF @ = "on" THEN @ ELSE "requested"]
    ELSE IF message.type = "translation"
    THEN [c EXCEPT !.translations = Append(@, TranslationChunk(message))]
    ELSE IF message.type = "error" THEN [c EXCEPT !.isConnecting = FALSE]
    ELSE c

\* processor.onaudioprocess
onaudioprocess(c, bytes) ==
    IF c.wsRef = "first" /\ c.ws = "OPEN"
    THEN [WsSend(c, AudioFrame(bytes)) EXCEPT !.sent = @ + 1]
    ELSE c

\* ws.close()
WsClose(c) == [c EXCEPT !.ws = IF @ \in {"CONNECTING", "OPEN"} THEN "CLOSING" ELSE @]

\* the processor is disconnected, the audio context closed and the
\* microphone's tracks stopped, when they exist
Release(c) == [c EXCEPT !.capture = IF @ \in {"on", "closing"} THEN "off" ELSE @]

\* the utterances of the finalize request
Utterances(translations) ==
    [i \in 1..Len(translations) |->
        LET t == translations[i] IN
        [speaker |-> t.speaker,
         originalText |-> OrText(t.originalText, t.text),
         translatedText |-> t.text,
         confidence |-> t.confidence,
         startTime |-> OrNum(t.startTime, (i - 1) * ClientSlot),
         endTime |-> OrNum(t.endTime, i * ClientSlot)]]

\* stopRecording, from `await audioContextRef.current.close()` on, with the
\* translations of the render in which the button was pressed
stopRecordingEnd(c, translations) ==
    LET c1 == Release(c)
        c2 == IF c1.wsRef = "first" /\ c1.ws = "OPEN"
              THEN WsClose(WsSend(c1, TextFrame(StopText)))
              ELSE c1
    IN [c2 EXCEPT !.wsRef = "none",
                  !.isRecording = FALSE,
                  !.stopping = NotStopping,
                  !.submitted = IF translations # <<>>
                                THEN Append(@, Utterances(translations)) ELSE @]

\* stopRecording: suspended at the close of the audio context when there
\* is one
stopRecording(c) ==
    IF c.capture = "on"
    THEN [c EXCEPT !.capture = "closing",
                   !.stopping = [active |-> TRUE, translations |-> c.translations]]
    ELSE stopRecordingEnd(c, c.translations)

cleanupRecording(c) ==
    LET c1 == IF c.wsRef = "first" THEN WsClose(c) ELSE c
    IN Release([c1 EXCEPT !.wsRef = "none"])

\* startRecording, pressed again: a session is created and a new socket
\* replaces the one in wsRef; or the request fails
startRecording(c, created) ==
    IF created
    THEN [c EXCEPT !.isConnecting = TRUE, !.translations = <<>>,
                   !.wsRef = "later", !.sockets = @ + 1]
    ELSE [c EXCEPT !.isConnecting = FALSE, !.translations = <<>>]

\* ws.onerror
WsOnError(c) == cleanupRecording([c EXCEPT !.isConnecting = FALSE])

\* ws.onclose
WsOnClose(c) == [c EXCEPT !.isRecording = FALSE, !.isConnecting = FALSE]

\* the client's socket opens
Connected ==
    /\ client.ws = "CONNECTING"
    /\ client' = WsOnOpen([client EXCEPT !.ws = "OPEN"])
    /\ UNCHANGED <<relayVars, storeVars, view, selector>>

\* the relay receives the client's oldest frame in flight; a text frame
\* reaches its handler as a string or as a Buffer
Deliver(asString) ==
    /\ client.outbox # <<>>
    /\ relay.clientWs \in {"OPEN", "CLOSING"}
    /\ LET frame == Head(client.outbox)
           data == [isBinary |-> frame.isBinary,
                    asString |-> asString /\ ~frame.isBinary,
                    bytes |-> frame.bytes] IN
       /\ relay' = OnClientMessage(relay, envApiKey, data)
       /\ authReceived' = (authReceived \/ IsValidAuth(data))
    /\ WithinBounds(relay', finals)
    /\ client' = [client EXCEPT !.outbox = Tail(@)]
    /\ UNCHANGED <<envApiKey, finals, errorSeen, storeVars, view, selector>>

\* the client receives the relay's next message
Receive ==
    /\ client.ws \in {"OPEN", "CLOSING"}
    /\ client.read < Len(relay.toClient)
    /\ client' = WsOnMessage([client EXCEPT !.read = @ + 1],
                             relay.toClient[client.read + 1])
    /\ UNCHANGED <<relayVars, storeVars, view, selector>>

\* startAudioCapture: the microphone is granted and the processor runs, or
\* it is refused
CaptureSettled(granted) ==
    /\ client.capture = "requested"
    /\ client' = [client EXCEPT !.capture = IF granted THEN "on" ELSE "failed"]
    /\ UNCHANGED <<relayVars, storeVars, view, selector>>

AudioProcess(bytes) ==
    /\ client.capture = "on"
    /\ client.sent < MaxFrames
    /\ client' = onaudioprocess(client, bytes)
    /\ UNCHANGED <<relayVars, storeVars, view, selector>>

\* the record button, which stops while isRecording and is disabled while
\* isConnecting
StopPressed ==
    /\ client.isRecording /\ ~client.isConnecting
    /\ ~client.stopping.active
    /\ client' = stopRecording(client)
    /\ UNCHANGED <<relayVars, storeVars, view, selector>>

\* the audio context has closed and stopRecording goes on
StopResumed ==
    /\ client.stopping.active
    /\ client' = stopRecordingEnd(client, client.stopping.translations)
    /\ UNCHANGED <<relayVars, storeVars, view, selector>>

\* the record button, which starts while neither isRecording nor
\* isConnecting
StartPressed(created) ==
    /\ ~client.isRecording /\ ~client.isConnecting
    /\ client.sockets < MaxSockets
    /\ client' = startRecording(client, created)
    /\ UNCHANGED <<relayVars, storeVars, view, selector>>

\* the screen is unmounted, while it holds a socket or captures audio
Unmounted ==
    /\ client.wsRef # "none" \/ client.capture \in {"on", "closing"}
    /\ client' = cleanupRecording(client)
    /\ UNCHANGED <<relayVars, storeVars, view, selector>>

\* the client's socket fails: the error event, then the close event, of a
\* socket that is closed already
Failed ==
    /\ client.ws \in {"CONNECTING", "OPEN"}
    /\ client' = WsOnClose(WsOnError([client EXCEPT !.ws = "CLOSED"]))
    /\ UNCHANGED <<relayVars, storeVars, view, selector>>

\* the client's socket is closed, by either end
Closed ==
    /\ client.ws # "CLOSED"
    /\ client.ws = "CLOSING" \/ relay.clientWs \in {"CLOSING", "CLOSED", "FAILED"}
    /\ client' = WsOnClose([client EXCEPT !.ws = "CLOSED"])
    /\ UNCHANGED <<relayVars, storeVars, view, selector>>

(***************************************************************************)
(* The language selector (LanguageSelectorScreen.tsx), opened from the     *)
(* record screen with its language pair and reporting a pair back on Done. *)
(***************************************************************************)
\* some of the codes of LANGUAGES
LanguageCodes == {"en", "es", "fr", "de", "it"}

\* the record screen before the selector was ever opened
NoSelector ==
    [sourceLanguage |-> "es", targetLanguage |-> "en", open |-> FALSE,
     activeTab |-> "source", selectedSource |-> "es", selectedTarget |-> "en"]

\* navigation.navigate("LanguageSelector", {sourceLanguage, targetLanguage, onSelect})
openLanguageSelector(s) ==
    [s EXCEPT !.open = TRUE, !.activeTab = "source",
              !.selectedSource = s.sourceLanguage,
              !.selectedTarget = s.targetLanguage]

\* a handler that puts every selection into the target
handleLanguageSelect_TargetOnly(s, code) == [s EXCEPT !.selectedTarget = code]

handleLanguageSelect(s, code) ==
    IF s.activeTab = "source"
    THEN [s EXCEPT !.selectedSource = code,
                   !.selectedTarget = IF code = s.selectedTarget
                                      THEN s.selectedSource ELSE @]
    ELSE [s EXCEPT !.selectedTarget = code,
                   !.selectedSource = IF code = s.selectedSource
                                      THEN s.selectedTarget ELSE @]

\* onSelect(selectedSource, selectedTarget); navigation.goBack()
handleDone(s) ==
    [s EXCEPT !.sourceLanguage = s.selectedSource,
              !.targetLanguage = s.selectedTarget,
              !.open = FALSE]

\* renderItem: the row of the other tab's language cannot be pressed
isDisabled(s, code) ==
    \/ s.activeTab = "source" /\ code = s.selectedTarget
    \/ s.activeTab = "target" /\ code = s.selectedSource

OpenSelector ==
    /\ ~selector.open
    /\ selector' = openLanguageSelector(selector)
    /\ UNCHANGED <<relayVars, storeVars, view, client>>

SetActiveTab(tab) ==
    /\ selector.open
    /\ selector' = [selector EXCEPT !.activeTab = tab]
    /\ UNCHANGED <<relayVars, storeVars, view, client>>

LanguagePressed(code) ==
    /\ selector.open
    /\ ~isDisabled(selector, code)
    /\ selector' = handleLanguageSelect(selector, code)
    /\ UNCHANGED <<relayVars, storeVars, view, client>>

DonePressed ==
    /\ selector.open
    /\ selector' = handleDone(selector)
    /\ UNCHANGED <<relayVars, storeVars, view, client>>

\* wss.on("connection"): a fresh relay
RelayInit ==
    /\ envApiKey \in {"", "key"}
    /\ relay = [isAuthenticated |-> FALSE,
                sessionConfig |-> NoConfig,
                assemblyApiKey |-> "",
                assemblyWs |-> 0,
                socks |-> <<>>,
                clientWs |-> "OPEN",
                toClient |-> <<>>,
                pending |-> {}]
    /\ finals = <<>>
    /\ authReceived = FALSE
    /\ errorSeen = FALSE

StoreInit ==
    /\ db = [users |-> <<>>, sessions |-> <<>>, utterances |-> <<>>]
    /\ res = NoResponse
    /\ writes = 0
    /\ signups = <<>>

ClientInit == view = NoView /\ client = NewClient("valid") /\ selector = NoSelector

Init == RelayInit /\ StoreInit /\ ClientInit

Next ==
    \/ \E data \in ClientFrames : ClientMessage(data)
    \/ ClientClose
    \/ ClientError
    \/ \E i \in 1..Len(relay.socks) : UpstreamOpen(i)
    \/ \E i \in 1..Len(relay.socks) : \E result \in ProviderMsgs :
           UpstreamMessage(i, result)
    \/ \E task \in relay.pending : \E outcome \in Outcomes :
           TranslateDone(task, outcome)
    \/ \E i \in 1..Len(relay.socks) : UpstreamError(i)
    \/ \E i \in 1..Len(relay.socks) : UpstreamClose(i)

Spec == Init /\ [][Next]_vars

StoreNext ==
    \/ \E req \in SessionRequests : CreateSession(req)
    \/ \E req \in FinalizeRequests : FinalizeSession(req)
    \/ \E req \in ListRequests : ListSessions(req)
    \/ \E req \in ReadRequests : ReadSession(req)

\* the store alone, beside a relay that has the provider's key
WithKey == Init /\ envApiKey = "key"
StoreSpec == WithKey /\ [][StoreNext]_vars

AuthNext ==
    \/ \E body \in SignupBodies : \E fail \in {"none", "getUserByEmail"} :
           SignupBegin(body, fail)
    \/ \E k \in 1..Len(signups) : \E fail \in {"none", "createUser"} :
           SignupEnd(k, fail)
    \/ \E body \in LoginBodies : \E fail \in {"none", "getUserByEmail"} :
           Login(body, fail)

\* the accounts alone
AuthSpec == WithKey /\ [][AuthNext]_vars

\* every REST endpoint side by side: the accounts, and one user's requests
\* for the first session
OneUser == <<"Bearer ", "u1">>

RestNext ==
    \/ AuthNext
    \/ \E fail \in {"none", "createSession"} :
           CreateSession(Request(OneUser, <<>>, [sourceLanguage |-> "", targetLanguage |-> ""], fail))
    \/ \E fail \in {"none", "getSessionById", "createUtterances", "updateSession"} :
           FinalizeSession(Request(OneUser, <<1>>, SampleBody, fail))
    \/ \E fail \in {"none", "getSessionsByUserId", "getUtterancesBySessionId"} :
           ListSessions(Request(OneUser, <<>>, <<>>, fail))
    \/ \E fail \in {"none", "getSessionById", "getUtterancesBySessionId"} :
           ReadSession(Request(OneUser, <<1>>, <<>>, fail))

RestSpec == WithKey /\ [][RestNext]_vars

\* the screens alone: any one row, drawn
ThemeInit ==
    /\ RelayInit /\ envApiKey = "key" /\ StoreInit
    /\ view \in Rows /\ client = NewClient("valid") /\ selector = NoSelector
ThemeSpec == ThemeInit /\ [][Render]_vars

\* the recording screen and the relay, connected
HandshakeInit ==
    /\ RelayInit /\ StoreInit /\ view = NoView /\ selector = NoSelector
    /\ client \in {NewClient(token) : token \in {"valid", "forged"}}

\* the provider's part in a recording: a final result with text, a partial
\* one; a translation call that answers, one that fails
SampleResults ==
    {r \in ProviderMsgs : r.message_type = "PartialTranscript" \/ r.confidence = 8}
SampleOutcomes ==
    {o \in Outcomes : o.kind = "throw" \/ (o.kind = "ok" /\ o.response = <<" ", "o", "k", " ">>)}

HandshakeNext ==
    \/ Connected
    \/ \E asString \in BOOLEAN : Deliver(asString)
    \/ Receive
    \/ \E granted \in BOOLEAN : CaptureSettled(granted)
    \/ \E bytes \in AudioFrames : AudioProcess(bytes)
    \/ StopPressed
    \/ StopResumed
    \/ \E created \in BOOLEAN : StartPressed(created)
    \/ Unmounted
    \/ Failed
    \/ Closed
    \/ ClientClose
    \/ ClientError
    \/ \E i \in 1..Len(relay.socks) : UpstreamOpen(i)
    \/ \E i \in 1..Len(relay.socks) : \E result \in SampleResults :
           UpstreamMessage(i, result)
    \/ \E task \in relay.pending : \E outcome \in SampleOutcomes :
           TranslateDone(task, outcome)
    \/ \E i \in 1..Len(relay.socks) : UpstreamError(i)
    \/ \E i \in 1..Len(relay.socks) : UpstreamClose(i)

HandshakeSpec == HandshakeInit /\ [][HandshakeNext]_vars

\* the language selector alone
SelectorNext ==
    \/ OpenSelector
    \/ \E tab \in {"source", "target"} : SetActiveTab(tab)
    \/ \E code \in LanguageCodes : LanguagePressed(code)
    \/ DonePressed

SelectorSpec == WithKey /\ [][SelectorNext]_vars

\* the same, where an event that stays pending is handled: a message or a
\* close event of the client's socket, the settling of getUserMedia and of
\* audioContext.close()
HandshakeFair ==
    /\ HandshakeSpec
    /\ WF_vars(Receive)
    /\ WF_vars(Closed)
    /\ WF_vars(StopResumed)
    /\ WF_vars(\E granted \in BOOLEAN : CaptureSettled(granted))

(***************************************************************************)
(* Vocabulary of the properties.                                           *)
(***************************************************************************)
IsTranslation(m) == m.type = "translation"
Translations(log) == SelectSeq(log, IsTranslation)

\* the client frames that carry a given command
FramesOf(type) ==
    {d \in ClientFrames : ~d.isBinary /\ JSONParse(d.bytes).type = type}

\* a message event can fire on the client socket
CanReceive == relay.clientWs \in {"OPEN", "CLOSING"}

Live(readyState) == readyState \in {"CONNECTING", "OPEN"}
LiveSocks(r) == {i \in 1..Len(r.socks) : Live(r.socks[i].readyState)}

NotAuthenticated == ErrorMsg("Not authenticated")
HasReady(log) == \E k \in 1..Len(log) : log[k].type = "ready"

(***************************************************************************)
(* C1 (as stated): while no auth message with a valid token has been       *)
(* received, every start command is answered with an error message, opens  *)
(* no provider socket and no ready message is ever sent.                   *)
(***************************************************************************)
C1_StartAlwaysAnswered ==
    (~authReceived /\ CanReceive) =>
        /\ relay.socks = <<>>
        /\ ~HasReady(relay.toClient)
        /\ \A d \in FramesOf("start") :
              LET r2 == OnClientMessage(relay, envApiKey, d) IN
              /\ r2.socks = <<>>
              /\ r2.toClient = Append(relay.toClient, NotAuthenticated)

(***************************************************************************)
(* C1 (amended): while no auth message with a valid token has been         *)
(* received, no provider socket exists, no ready message has been sent, and*)
(* a start command opens no provider socket; it is answered with the error *)
(* message "Not authenticated" whenever the client socket is still open    *)
(* (after a failed auth the relay has closed it, and nothing is delivered).*)
(***************************************************************************)
C1_UnauthStartRejected ==
    ~authReceived =>
        /\ relay.socks = <<>>
        /\ ~HasReady(relay.toClient)
        /\ \A d \in FramesOf("start") :
              LET r2 == OnClientMessage(relay, envApiKey, d) IN
              /\ r2.socks = <<>>
              /\ r2.toClient = IF relay.clientWs = "OPEN"
                               THEN Append(relay.toClient, NotAuthenticated)
                               ELSE relay.toClient

\* an unauthenticated start was received and answered
C1_Witness ==
    /\ ~authReceived
    /\ \E k \in 1..Len(relay.toClient) : relay.toClient[k] = NotAuthenticated

(***************************************************************************)
(* C2: once the client socket's close event has fired, no provider socket  *)
(* of the relay is open or still connecting.                               *)
(***************************************************************************)
C2_ClientCloseClosesUpstream ==
    relay.clientWs = "CLOSED" => LiveSocks(relay) = {}

(***************************************************************************)
(* C6: when the relay has handled a stop command, the client socket and    *)
(* every provider socket of the relay are closed or closing.               *)
(***************************************************************************)
BothEndsDown(r) == r.clientWs # "OPEN" /\ LiveSocks(r) = {}

C6_StopTearsDownBothEnds ==
    [][(relay.assemblyWs # 0 /\ \E d \in FramesOf("stop") : ClientMessage(d))
          => BothEndsDown(relay')]_vars

(***************************************************************************)
(* C7: when the close event of a provider socket has fired, the relay has  *)
(* closed the client socket.                                               *)
(***************************************************************************)
C7_UpstreamCloseClosesClient ==
    [][(\E i \in 1..Len(relay.socks) : UpstreamClose(i))
          => relay'.clientWs # "OPEN"]_vars

(***************************************************************************)
(* C9: at most one provider socket of a relay is connecting or open.       *)
(***************************************************************************)
C9_AtMostOneUpstream == Cardinality(LiveSocks(relay)) <= 1

(***************************************************************************)
(* Final results and their translation messages.                           *)
(***************************************************************************)
Delivered(id) ==
    Cardinality({k \in 1..Len(relay.toClient) :
                    IsTranslation(relay.toClient[k]) /\ relay.toClient[k].id = id})
InFlight(id) == Cardinality({t \in relay.pending : t.id = id})

\* a numeric field of the provider's result, 0 when absent
Num0(n) == IF n = UndefNum THEN 0 ELSE n

\* the translation the client is to see: the response of a successful call,
\* the text itself otherwise, without surrounding whitespace
ExpectedTranslation(text, outcome) ==
    IF outcome.kind = "ok" /\ outcome.response # UndefText
       /\ Trim(outcome.response) # <<>>
    THEN Trim(outcome.response) ELSE Trim(text)

\* m is the translation message of final result f, number id
Republishes(m, id, f, translated) ==
    /\ m.type = "translation"
    /\ m.id = id
    /\ m.originalText = f.text
    /\ m.translatedText = translated
    /\ m.startTime = Num0(f.audio_start)
    /\ m.endTime = Num0(f.audio_end)

\* log2 is log with exactly one message appended, and P holds of it
AppendsOne(log, log2, P(_)) ==
    /\ Len(log2) = Len(log) + 1
    /\ SubSeq(log2, 1, Len(log)) = log
    /\ P(log2[Len(log2)])

\* no call is made for this text under the relay's language pair
NoCall(r, text) ==
    \/ r.sessionConfig.sourceLanguage = r.sessionConfig.targetLanguage
    \/ Trim(text) = <<>>

CanDeliver ==
    \E i \in 1..Len(relay.socks) : relay.socks[i].readyState \in {"OPEN", "CLOSING"}

(***************************************************************************)
(* C3 (as stated): every FinalTranscript the relay has received has        *)
(* exactly one translation message, delivered or still awaiting its        *)
(* translation call.                                                       *)
(***************************************************************************)
C3_EveryFinalOnce ==
    relay.clientWs = "OPEN" =>
        \A id \in 1..Len(finals) : Delivered(id) + InFlight(id) = 1

(***************************************************************************)
(* C3 (amended): every FinalTranscript with non-empty text produces at     *)
(* most one translation message, and exactly one while the client socket   *)
(* is open; a FinalTranscript with empty text produces none.  The message  *)
(* carries the result's text as originalText, audio_start and audio_end    *)
(* (0 when absent) as startTime and endTime, and as translatedText the     *)
(* response of the translation call with surrounding whitespace trimmed,   *)
(* or the trimmed text itself when no call is made, the call fails or its  *)
(* response is blank.                                                      *)
(***************************************************************************)
C3_FinalRepublishedOnce ==
    /\ \A id \in 1..Len(finals) :
          IF FalsyText(finals[id].text)
          THEN Delivered(id) + InFlight(id) = 0
          ELSE /\ Delivered(id) + InFlight(id) <= 1
               /\ relay.clientWs = "OPEN" => Delivered(id) + InFlight(id) = 1
    /\ \A k \in 1..Len(relay.toClient) :
          LET m == relay.toClient[k] IN
          IsTranslation(m) =>
              /\ m.id \in 1..Len(finals)
              /\ \E o \in Outcomes :
                    Republishes(m, m.id, finals[m.id],
                                ExpectedTranslation(finals[m.id].text, o))
    /\ \A t \in relay.pending :
          /\ t.id \in 1..Len(finals)
          /\ t.result = finals[t.id]
          /\ \A o \in Outcomes :
                LET r2 == OnTranslateDone(relay, t, o)
                    Right(m) == Republishes(m, t.id, finals[t.id],
                                    ExpectedTranslation(finals[t.id].text, o))
                IN /\ r2.pending = relay.pending \ {t}
                   /\ IF relay.clientWs = "OPEN"
                      THEN AppendsOne(relay.toClient, r2.toClient, Right)
                      ELSE r2.toClient = relay.toClient
    /\ CanDeliver =>
          \A f \in ProviderMsgs :
              (f.message_type = "FinalTranscript" /\ f.text # <<>>) =>
                  LET id == Len(finals) + 1
                      r2 == OnUpstreamMessage(relay, id, f)
                      Right(m) == Republishes(m, id, f, Trim(f.text))
                  IN IF NoCall(relay, f.text)
                     THEN /\ r2.pending = relay.pending
                          /\ IF relay.clientWs = "OPEN"
                             THEN AppendsOne(relay.toClient, r2.toClient, Right)
                             ELSE r2.toClient = relay.toClient
                     ELSE /\ r2.toClient = relay.toClient
                          /\ \E t \in r2.pending :
                                /\ t \notin relay.pending
                                /\ t.id = id /\ t.result = f
                                /\ r2.pending = relay.pending \cup {t}

\* the response of a translation call was trimmed and delivered
C3_Witness ==
    \E k \in 1..Len(relay.toClient) :
        /\ IsTranslation(relay.toClient[k])
        /\ relay.toClient[k].originalText = <<"y", "o", " ">>
        /\ relay.toClient[k].translatedText = <<"o", "k">>

(***************************************************************************)
(* C8: every binary frame received while the provider socket is open is    *)
(* forwarded once, after the frames before it, and the base64 text sent    *)
(* decodes to the frame's bytes.                                           *)
(***************************************************************************)
RECURSIVE Base64Decode(_)
Base64Decode(c) ==
    IF Len(c) < 4 THEN <<>>
    ELSE LET b1 == c[1] * 4 + c[2] \div 16
             b2 == (c[2] % 16) * 16 + c[3] \div 4
             b3 == (c[3] % 4) * 64 + c[4]
         IN (IF c[3] = Pad THEN <<b1>>
             ELSE IF c[4] = Pad THEN <<b1, b2>>
             ELSE <<b1, b2, b3>>) \o Base64Decode(SubSeq(c, 5, Len(c)))

SampleBytes == {0, 16, OpenBrace, 255}
ByteStrings ==
    UNION {[1..n -> SampleBytes] : n \in 1..3}
BinaryFrames == [isBinary : {TRUE}, asString : {FALSE}, bytes : ByteStrings]

UpstreamIsOpen(r) ==
    r.assemblyWs # 0 /\ r.socks[r.assemblyWs].readyState = "OPEN"

C8_EveryBinaryFrameForwarded ==
    (CanReceive /\ UpstreamIsOpen(relay)) =>
        \A d \in BinaryFrames :
            LET r2 == OnClientMessage(relay, envApiKey, d)
                Right(m) == /\ "audio_data" \in DOMAIN m
                            /\ Base64Decode(m.audio_data) = d.bytes
            IN AppendsOne(relay.socks[relay.assemblyWs].sent,
                          r2.socks[relay.assemblyWs].sent, Right)

(***************************************************************************)
(* C10: once a transport error event has fired on either socket, no        *)
(* further result is sent downstream: a translation call that returns      *)
(* after the error delivers nothing.                                       *)
(***************************************************************************)
C10_ErrorStopsRelay ==
    errorSeen =>
        \A t \in relay.pending : \A o \in Outcomes :
            OnTranslateDone(relay, t, o).toClient = relay.toClient

(***************************************************************************)
(* Finalize, as a request of a session's owner while storage works.        *)
(***************************************************************************)
Owner(i) == <<"Bearer ", db.sessions[i].userId>>

Finalized(i, us) ==
    PostFinalize(db, Owner(i), <<i>>, [duration |-> 30, utterances |-> us], "none")

\* utterances with every field given: confidence anywhere from 0 to 1
GivenUtterances ==
    {Utterance(speaker, <<"s">>, <<"a", " ", "b">>, UndefText, c, range[1], range[2]) :
        speaker \in {"A", "B"}, c \in 0..10,
        range \in {<<0, 1200>>, <<1200, 2500>>}}

GivenLists == UNION {[1..n -> GivenUtterances] : n \in 1..2}

(***************************************************************************)
(* C4: a successful finalize adds to the stored utterances one record per  *)
(* submitted utterance, in order, each for the session and with the        *)
(* submitted speaker, texts, confidence and time range, and leaves the     *)
(* records stored before as they were.                                     *)
(***************************************************************************)
C4_PersistsSubmitted ==
    \A i \in 1..Len(db.sessions) : \A us \in GivenLists :
        LET out == Finalized(i, us)
            before == Len(db.utterances)
            added == SubSeq(out.db.utterances, before + 1, Len(out.db.utterances))
        IN out.res.status = 200 =>
            /\ SubSeq(out.db.utterances, 1, before) = db.utterances
            /\ Len(added) = Len(us)
            /\ \A k \in 1..Len(us) :
                  /\ added[k].sessionId = i
                  /\ added[k].speakerLabel = us[k].speaker
                  /\ added[k].originalText = us[k].originalText
                  /\ added[k].translatedText = us[k].translatedText
                  /\ added[k].confidence = us[k].confidence
                  /\ added[k].startTime = us[k].startTime
                  /\ added[k].endTime = us[k].endTime

(***************************************************************************)
(* C5: a successful finalize with a non-empty list of utterances stores    *)
(* as the session's avgConfidence the arithmetic mean of the submitted     *)
(* confidences (in tenths here: num/den = total/(10 * count)).             *)
(***************************************************************************)
RECURSIVE Total(_)
Total(us) == IF us = <<>> THEN 0 ELSE Head(us).confidence + Total(Tail(us))

C5_MeanOfSubmitted ==
    \A i \in 1..Len(db.sessions) : \A us \in GivenLists :
        LET out == Finalized(i, us)
            avg == out.db.sessions[i].avgConfidence
        IN out.res.status = 200 =>
            /\ avg.den # 0
            /\ avg.num * (10 * Len(us)) = Total(us) * avg.den

(***************************************************************************)
(* C11: an error caught while handling a client message (here: a control   *)
(* message that JSON.parse rejects) is reported to the client as exactly   *)
(* one message of type error.                                              *)
(***************************************************************************)
\* handling the frame throws inside the try block
Throws(data) == IsControl(data) /\ JSONParse(data.bytes) = SyntaxError

IsError(m) == m.type = "error"

C11_CaughtErrorReported ==
    relay.clientWs = "OPEN" =>
        \A d \in ClientFrames :
            Throws(d) =>
                AppendsOne(relay.toClient,
                           OnClientMessage(relay, envApiKey, d).toClient, IsError)

(***************************************************************************)
(* The phases of a relay, read off its state: it is streaming while the    *)
(* provider socket audio is forwarded to is open, and stopped once it has  *)
(* told the client so.                                                     *)
(***************************************************************************)
Streaming(r) == UpstreamIsOpen(r)
Stopped(r) == \E k \in 1..Len(r.toClient) : r.toClient[k].type = "stopped"

(***************************************************************************)
(* C12: a relay is streaming only if it is authenticated, and no step      *)
(* takes a relay that is stopped and not streaming to streaming.           *)
(***************************************************************************)
C12_PhasesOnlyForward ==
    [][/\ Streaming(relay') => relay'.isAuthenticated
       /\ (Stopped(relay) /\ ~Streaming(relay)) => ~Streaming(relay')]_vars

(***************************************************************************)
(* C13: a request with the valid token of user u reads or finalizes only   *)
(* sessions owned by u.  For an id that names no session, or a session of  *)
(* another user, GET /api/sessions/:id and finalize change no record and,  *)
(* while storage works, answer 404; a successful GET returns the owned     *)
(* session and only its utterances; GET /api/sessions returns only         *)
(* sessions owned by u, each with a preview taken from its own utterances. *)
(***************************************************************************)
StorageCalls == {"none", "getSessionById", "getSessionsByUserId",
                 "getUtterancesBySessionId", "createUtterances", "updateSession"}

Owns(u, id) == id \in 1..Len(db.sessions) /\ db.sessions[id].userId = u

NotFound == Response(404, "Session not found", 0)

C13_OnlyOwnSessions ==
    \A u \in Users : \A fail \in StorageCalls :
        LET h == <<"Bearer ", u>> IN
        /\ \A param \in SessionParams :
              LET id == parseInt(param)
                  get == GetSession(db, h, param, fail)
              IN
              /\ get.db = db
              /\ get.res.status = 200 =>
                    /\ Owns(u, id)
                    /\ \A e \in get.res.sessions : e.session = db.sessions[id]
                    /\ \A row \in get.res.utterances : row.sessionId = id
              /\ (~Owns(u, id) /\ id # NaN /\ fail = "none") => get.res = NotFound
              /\ \A body \in FinalizeBodies :
                    LET fin == PostFinalize(db, h, param, body, fail) IN
                    /\ fin.res.status = 200 => Owns(u, id)
                    /\ ~Owns(u, id) => fin.db = db
                    /\ (~Owns(u, id) /\ id # NaN /\ fail = "none") =>
                          fin.res = NotFound
        /\ \A first \in FirstRows(db) :
              LET list == GetSessions(db, h, first, fail) IN
              /\ list.db = db
              /\ list.res.status = 200 =>
                    \A e \in list.res.sessions :
                        /\ Owns(u, e.session.id)
                        /\ e.session = db.sessions[e.session.id]
                        /\ \/ e.preview = <<>>
                           \/ \E k \in getUtterancesBySessionId(db, e.session.id) :
                                 e.preview = db.utterances[k].translatedText

\* a request for a session that is missing or another user's was answered,
\* in a store where one user's session has utterances
C13_Witness ==
    /\ res = NotFound
    /\ writes = 2
    /\ \E k \in 1..Len(db.utterances) :
          db.sessions[db.utterances[k].sessionId].userId = "u1"

(***************************************************************************)
(* C14: a session's stored speakerCount is the number of distinct speaker  *)
(* labels among its persisted utterances and its stored avgConfidence is   *)
(* the mean of their confidences; a successful finalize of a session for   *)
(* which this is so leaves it so.                                          *)
(***************************************************************************)
RowsOf(d, i) == {k \in 1..Len(d.utterances) : d.utterances[k].sessionId = i}

RECURSIVE SumOver(_, _)
SumOver(d, rows) ==
    IF rows = {} THEN 0
    ELSE LET k == CHOOSE x \in rows : TRUE IN
         d.utterances[k].confidence + SumOver(d, rows \ {k})

\* the aggregates of session i are those of its rows
Derived(d, i) ==
    LET rows == RowsOf(d, i)
        avg == d.sessions[i].avgConfidence
    IN /\ d.sessions[i].speakerCount =
              Cardinality({d.utterances[k].speakerLabel : k \in rows})
       /\ avg.den # 0
       /\ avg.num * (10 * Cardinality(rows)) = SumOver(d, rows) * avg.den

C14_AggregatesDerived ==
    \A i \in 1..Len(db.sessions) : \A body \in FinalizeBodies :
        LET out == PostFinalize(db, Owner(i), <<i>>, body, "none") IN
        (RowsOf(db, i) # {} /\ Derived(db, i) /\ out.res.status = 200)
            => Derived(out.db, i)

(***************************************************************************)
(* C15: whenever a storage call made while handling signup, login, session *)
(* create, session list, session get or finalize fails (it throws, or the  *)
(* database rejects the row), the request is answered with status 500 and  *)
(* an error string, never with a success.                                  *)
(***************************************************************************)
IsFailure(r) == r.status = 500 /\ r.error # ""

HasToken(h) == Len(h) > 1 /\ h[1] = "Bearer " /\ h[2] \in Users
TokenUser(h) == h[2]

\* the body carries utterances to insert
Inserts(body) == body.utterances # NoList /\ body.utterances # <<>>

\* the utterance has no text for a column that must not be null
NullColumn(u) ==
    (FalsyText(u.originalText) \/ FalsyText(u.translatedText)) /\ u.text = UndefText

C15_StorageFailureIs500 ==
    /\ \A body \in SignupBodies :
          (body.name # "" /\ body.email # "" /\ body.password # "") =>
              IsFailure(SignupCheck(db, body, "getUserByEmail").res)
    /\ \A k \in 1..Len(signups) :
          /\ IsFailure(SignupInsert(db, signups[k], "createUser").res)
          /\ (\E j \in 1..Len(db.users) : db.users[j].email = signups[k].email)
                => IsFailure(SignupInsert(db, signups[k], "none").res)
    /\ \A body \in LoginBodies :
          (body.email # "" /\ body.password # "") =>
              IsFailure(PostLogin(db, body, "getUserByEmail"))
    /\ \A h \in AuthHeaders :
          HasToken(h) =>
              /\ \A body \in SessionBodies :
                    IsFailure(PostSession(db, h, body, "createSession").res)
              /\ \A first \in FirstRows(db) :
                    /\ IsFailure(GetSessions(db, h, first, "getSessionsByUserId").res)
                    /\ (\E i \in 1..Len(db.sessions) : Owns(TokenUser(h), i)) =>
                          IsFailure(GetSessions(db, h, first,
                                                "getUtterancesBySessionId").res)
              /\ \A param \in SessionParams :
                    /\ IsFailure(GetSession(db, h, param, "getSessionById").res)
                    /\ Owns(TokenUser(h), parseInt(param)) =>
                          IsFailure(GetSession(db, h, param,
                                               "getUtterancesBySessionId").res)
                    /\ \A body \in FinalizeBodies :
                          /\ IsFailure(PostFinalize(db, h, param, body,
                                                    "getSessionById").res)
                          /\ (Owns(TokenUser(h), parseInt(param)) /\ Inserts(body)) =>
                                /\ IsFailure(PostFinalize(db, h, param, body,
                                                          "createUtterances").res)
                                /\ (\E k \in 1..Len(body.utterances) :
                                        NullColumn(body.utterances[k]))
                                      => IsFailure(PostFinalize(db, h, param, body,
                                                                "none").res)
                          /\ (/\ Owns(TokenUser(h), parseInt(param))
                              /\ \A k \in 1..Len(body.utterances) :
                                    Inserts(body) => ~NullColumn(body.utterances[k])) =>
                                IsFailure(PostFinalize(db, h, param, body,
                                                       "updateSession").res)

\* a finalize failed after its utterances were stored, beside an account
C15_Witness ==
    /\ res = Response(500, "Failed to finalize session", 0)
    /\ db.utterances # <<>>
    /\ db.users # <<>>

(***************************************************************************)
(* The colors and opacities of the rows.                                   *)
(***************************************************************************)
Palette == {SpeakerColors[k] : k \in 1..Len(SpeakerColors)}
Letter(k) == <<CharCodeA + k>>

\* C16: every non-empty speaker label is drawn in one of the five
\* SpeakerColors entries, never an undefined value; the labels A to E
\* receive five pairwise distinct colors, and later letters wrap around.
C16_ColorFromPalette ==
    /\ (view.drawn /\ view.speaker # <<>>) => view.color \in Palette
    /\ \A j, k \in 0..4 : j # k => getSpeakerColor(Letter(j)) # getSpeakerColor(Letter(k))
    /\ \A k \in 0..(MaxCharCode - CharCodeA - 5) :
           getSpeakerColor(Letter(k + 5)) = getSpeakerColor(Letter(k))

\* C17: a row of confidence below 0.7 is drawn at 50% opacity, of
\* confidence from 0.7 to 0.9 at 80%, of confidence above 0.9 at full
\* opacity, for every confidence from 0 to 1.
C17_OpacityBuckets ==
    (view.drawn /\ view.confidence \in 0..100) =>
        view.opacity = IF view.confidence < 70 THEN 50
                       ELSE IF view.confidence <= 90 THEN 80
                       ELSE 100

(***************************************************************************)
(* Control messages and audio frames.                                      *)
(***************************************************************************)
AllFrames == ClientFrames \cup BinaryFrames
IsAudioMsg(m) == "audio_data" \in DOMAIN m
\* the audio sent on the i-th provider socket, none on one not yet created
AudioSent(r, i) == IF i \in 1..Len(r.socks) THEN SelectSeq(r.socks[i].sent, IsAudioMsg) ELSE <<>>

\* C18: a client message is treated as a control message exactly when it is
\* textual: a binary frame is handled by the audio branch and by nothing
\* else, and a textual message adds no audio to what is sent upstream.
C18_ControlIffTextual ==
    CanReceive =>
        \A d \in AllFrames :
            LET r2 == OnClientMessage(relay, envApiKey, d) IN
            /\ IsControl(d) <=> ~d.isBinary
            /\ d.isBinary => r2 = HandleAudio(relay, d)
            /\ ~d.isBinary =>
                   \A i \in 1..Len(r2.socks) : AudioSent(r2, i) = AudioSent(relay, i)

\* binary frames whose bytes happen to spell a control message
BinaryControls == [isBinary : {TRUE}, asString : {FALSE}, bytes : ControlTexts]

\* C20: a binary frame received while no provider socket is open (before
\* start, while the socket is connecting, after it closed) is discarded: it
\* leaves the relay's state, and so everything sent later, as it was.
C20_DiscardedWithoutUpstream ==
    (CanReceive /\ ~UpstreamIsOpen(relay)) =>
        \A d \in BinaryFrames \cup BinaryControls :
            OnClientMessage(relay, envApiKey, d) = relay

(***************************************************************************)
(* The handshake of the recording screen and the relay.                    *)
(***************************************************************************)
IsReady(m) == m.type = "ready"
IsStartFrame(f) == ~f.isBinary /\ JSONParse(f.bytes).type = "start"
IsBinaryFrame(f) == f.isBinary
Received(type) == \E k \in 1..client.read : relay.toClient[k].type = type
C19_AudioForwarded == \E i \in 1..Len(relay.socks) : AudioSent(relay, i) # <<>>

NotFinalResult(result) ==
    result.message_type # "FinalTranscript" \/ result.text \in {<<>>, UndefText}

\* C21: a message of the provider that is not a final result (a partial
\* transcript, a session notice, an unparsable message, a final result with
\* empty text) sends nothing to the client and leaves the relay's state as
\* it was.
C21_OnlyFinalsRepublished ==
    CanDeliver =>
        \A result \in ProviderMsgs :
            NotFinalResult(result) =>
                OnUpstreamMessage(relay, Len(finals) + 1, result) = relay

\* a final result with empty text has been received by a relay that
\* translates, and nothing was republished
C21_Witness ==
    /\ \E k \in 1..Len(finals) : finals[k].text = <<>>
    /\ CallsTranslate(relay)
    /\ relay.clientWs = "OPEN"
    /\ HasReady(relay.toClient)
    /\ Translations(relay.toClient) = <<>>
    /\ relay.pending = {}

\* the translations delivered are in the order of their final results, and
\* none has overtaken a final result whose translation call is in flight
InOrder(r) ==
    LET ts == Translations(r.toClient) IN
    /\ \A j, k \in 1..Len(ts) : j < k => ts[j].id < ts[k].id
    /\ \A k \in 1..Len(ts) : \A t \in r.pending : ts[k].id < t.id

\* C22: translation messages reach the client in the order in which their
\* final results were received, whichever translation call returns next.
C22_TranslationsInOrder ==
    /\ InOrder(relay)
    /\ \A t \in relay.pending : \A o \in Outcomes :
           relay.clientWs = "OPEN" => InOrder(OnTranslateDone(relay, t, o))

\* no translation message follows a stopped message
QuietAfterStopped(log) ==
    \A j, k \in 1..Len(log) :
        (j < k /\ log[j].type = "stopped") => ~IsTranslation(log[k])

\* C23: once the relay has answered a stop command with stopped, it sends
\* no further translation message, also not for a final result whose
\* translation call was in flight when the stop arrived.
C23_NoTranslationAfterStopped ==
    /\ QuietAfterStopped(relay.toClient)
    /\ CanReceive =>
           \A d \in FramesOf("stop") :
               LET r1 == OnClientMessage(relay, envApiKey, d) IN
               Stopped(r1) =>
                   \A t \in r1.pending : \A o \in Outcomes :
                       QuietAfterStopped(OnTranslateDone(r1, t, o).toClient)

(***************************************************************************)
(* The recording screen.                                                   *)
(***************************************************************************)
IsStopFrame(f) == ~f.isBinary /\ JSONParse(f.bytes).type = "stop"

\* the step in which stopRecording sends stop and closes the socket
ClosesByStop ==
    /\ client.ws = "OPEN" /\ client'.ws = "CLOSING"
    /\ AppendsOne(client.outbox, client'.outbox, IsStopFrame)

\* C24: when recording stops, the utterances submitted to finalize are the
\* translations received and shown until the client closes the socket, in
\* order: none that is on screen by then is left out of the request.
C24_SubmitsWhatWasShown ==
    [][ClosesByStop =>
           client'.submitted =
               IF client.translations = <<>> THEN client.submitted
               ELSE Append(client.submitted, Utterances(client.translations))]_vars

\* C25: startRecording creates a socket only when no socket created before
\* is still connecting or open.
C25_OneSocketAtATime ==
    [][client'.sockets > client.sockets =>
           client.ws \notin {"CONNECTING", "OPEN"}]_vars

\* the microphone stream, the audio context and the processor are released
\* (or were never acquired)
Released == client.capture \in {"off", "failed"}

\* C26: whenever the client's socket has closed, its audio capture is
\* eventually released.
C26_CaptureReleasedAfterClose ==
    (client.ws = "CLOSED") ~> Released

(***************************************************************************)
(* Finalize, called again and failing.                                     *)
(***************************************************************************)
\* the utterances persisted for session i, in order, without their keys
Persisted(d, i) ==
    LET Of(u) == u.sessionId = i
        rows == SelectSeq(d.utterances, Of)
    IN [k \in 1..Len(rows) |-> [f \in DOMAIN rows[k] \ {"id"} |-> rows[k][f]]]

\* C27: finalize is idempotent: a second finalize of the same session with
\* the same payload leaves the persisted utterances and the session's
\* aggregates as the first left them.
C27_FinalizeIdempotent ==
    \A i \in 1..Len(db.sessions) : \A body \in FinalizeBodies :
        LET once == PostFinalize(db, Owner(i), <<i>>, body, "none")
            twice == PostFinalize(once.db, Owner(i), <<i>>, body, "none")
        IN once.res.status = 200 =>
               /\ twice.res = once.res
               /\ Persisted(twice.db, i) = Persisted(once.db, i)
               /\ twice.db.sessions[i] = once.db.sessions[i]

\* C28: finalize is all-or-nothing: a finalize request answered with an
\* error (404 or 500) leaves the stored utterances and sessions as they
\* were.
C28_FinalizeAllOrNothing ==
    \A authHeader \in AuthHeaders : \A param \in SessionParams :
        \A body \in FinalizeBodies :
            \A fail \in {"none", "getSessionById", "createUtterances", "updateSession"} :
                LET out == PostFinalize(db, authHeader, param, body, fail) IN
                out.res.status \in {404, 500} => out.db = db

(***************************************************************************)
(* Accounts.                                                               *)
(***************************************************************************)
Registered(d, email) == \E k \in 1..Len(d.users) : d.users[k].email = email
IssuesToken(r) == "token" \in DOMAIN r

\* C30: no two user records share an email address, however concurrent
\* signups interleave; a signup for an email that is registered, whether it
\* is at its check or suspended before its insert, creates no user and
\* issues no token.
C30_EmailsUnique ==
    /\ \A j, k \in 1..Len(db.users) :
           j # k => db.users[j].email # db.users[k].email
    /\ \A body \in SignupBodies : \A fail \in {"none", "getUserByEmail"} :
           LET out == SignupCheck(db, body, fail) IN
           Registered(db, body.email) =>
               out.suspended = <<>> /\ ~IssuesToken(out.res)
    /\ \A k \in 1..Len(signups) : \A fail \in {"none", "createUser"} :
           LET out == SignupInsert(db, signups[k], fail) IN
           Registered(db, signups[k].email) =>
               out.db = db /\ ~IssuesToken(out.res)

\* a signup for an email has just succeeded while another signup for the
\* same email, which passed its check before, is suspended before its insert
C30_Witness ==
    /\ IssuesToken(res)
    /\ \E k \in 1..Len(signups) :
           /\ signups[k].email = res.user.email
           /\ Registered(db, signups[k].email)

(***************************************************************************)
(* The language pair.                                                      *)
(***************************************************************************)
\* C29: starting from a distinct pair, after any tab switches and language
\* selections the selector's source and target differ, and the pair Done
\* reports to the record screen is never an identical one.
C29_PairDistinct ==
    /\ selector.selectedSource # selector.selectedTarget
    /\ selector.sourceLanguage # selector.targetLanguage

\* Done has reported the pair fr to es, reached from es to en by selections
\* on both tabs
C29_Witness ==
    /\ ~selector.open
    /\ selector.sourceLanguage = "fr"
    /\ selector.targetLanguage = "es"

=============================================================================
